---- MODULE Spec2Model ----
(***************************************************************************)
(* The task-auction pallet (pallets/task_auction/src/lib.rs): the auction  *)
(* registry, the per-auction linked bid stack, the assignment oracle and   *)
(* the eight dispatchables, over the host ledger (free / reserved          *)
(* balances), the host block number and the host account nonces.           *)
(*                                                                         *)
(* Every dispatchable is a pure operator from the storage before the call  *)
(* to its DispatchResult and the storage after it; the actions of Next     *)
(* apply those operators.  The dispatchables are not #[transactional]: the *)
(* storage written before an Err is returned stays written.  An unwrap()   *)
(* on an Err or a None is a panic; the host discards the whole call, so    *)
(* the storage is as before and the result is "Panic".                     *)
(***************************************************************************)
EXTENDS Integers, Sequences, FiniteSets, TLC

VARIABLES
    Auctions,       \* StorageMap Key -> Auction (a function on the live keys)
    Bids,           \* StorageDoubleMap (Key, Key) -> (Key, Balance)
    free,           \* host ledger: free balance of every account
    reserved,       \* host ledger: reserved balance of every account
    now,            \* frame_system block_number
    account_nonce,  \* frame_system account_nonce of every account
    last_event,     \* frame_system events: the last event deposited
    event_count     \* frame_system event_count: the events deposited so far

vars == <<Auctions, Bids, free, reserved, now, account_nonce, last_event, event_count>>

----------------------------------------------------------------------------
(* Bounds of the model. *)

MaxAccount == 2     \* accounts are 0 .. MaxAccount; 0 is the default account
MaxBlock == 2       \* the block number stops advancing here
MaxNonce == 1       \* an account's nonce stops advancing here
MaxBounty == 2      \* largest bounty offered to create and extend
MaxDeposit == 2     \* largest deposit offered to create
MaxSeq == 2         \* deepest bid stack
MaxEvents == 5      \* the host stops dispatching calls after this many events

(* Configuration of the pallet (Config), scaled to the amounts above. *)

MinBounty == 1
MinDeposit == 1
MinBidRatio == 255
MaxDataSize == 1

Accounts == 0 .. MaxAccount
Nonces == 0 .. MaxNonce
Keys == Accounts \X Nonces
DefaultKey == <<0, 0>>

GenesisBalance(who) == who + 1

Min(a, b) == IF a <= b THEN a ELSE b

----------------------------------------------------------------------------
(* Storage maps. *)

insert(map, k, v) == [x \in DOMAIN map \cup {k} |-> IF x = k THEN v ELSE map[x]]

remove(map, k) == [x \in DOMAIN map \ {k} |-> map[x]]

(* A removal of the sentinel head alone, which leaves the bids behind. *)
remove_head(bids, auction_key) == remove(bids, <<auction_key, DefaultKey>>)

remove_prefix(bids, auction_key) ==
    [x \in {y \in DOMAIN bids : y[1] # auction_key} |-> bids[x]]

----------------------------------------------------------------------------
(* The host ledger, on L = [free, reserved]. *)

reserve_ok(L, who, value) == L.free[who] >= value

reserve(L, who, value) ==
    [free |-> [L.free EXCEPT ![who] = @ - value],
     reserved |-> [L.reserved EXCEPT ![who] = @ + value]]

unreserve(L, who, value) ==
    LET actual == Min(value, L.reserved[who])
    IN  [free |-> [L.free EXCEPT ![who] = @ + actual],
         reserved |-> [L.reserved EXCEPT ![who] = @ - actual]]

transfer_ok(L, source, dest, value) ==
    value = 0 \/ source = dest \/ L.free[source] >= value

transfer(L, source, dest, value) ==
    IF source = dest THEN L
    ELSE [free |-> [L.free EXCEPT ![source] = @ - value, ![dest] = @ + value],
          reserved |-> L.reserved]

----------------------------------------------------------------------------
(* The assignment oracle. *)

(* A base price that counts the blocks left instead of the blocks gone. *)
get_base_price_blocks_left(auction, block) ==
    IF block < auction.terminal_block
    THEN (auction.bounty * (auction.terminal_block - block))
            \div (auction.terminal_block - auction.initial_block)
    ELSE auction.bounty

(* saturated_into::<u32>() is the identity on the block differences the    *)
(* model reaches (all far below 2^32), and is left out.                    *)
get_base_price(auction, block) ==
    IF block < auction.terminal_block
    THEN (auction.bounty * (block - auction.initial_block))
            \div (auction.terminal_block - auction.initial_block)
    ELSE auction.bounty

is_assigned(auction, top_bid, block) == top_bid <= get_base_price(auction, block)

----------------------------------------------------------------------------
(* A dispatchable maps the storage S before the call to an outcome: the    *)
(* DispatchResult, the event deposited and the storage after the call.     *)

State ==
    [Auctions |-> Auctions, Bids |-> Bids, free |-> free, reserved |-> reserved,
     now |-> now, account_nonce |-> account_nonce]

Ledger(S) == [free |-> S.free, reserved |-> S.reserved]

NoEvent == [name |-> "None"]

Outcome(result, event, auctions, bids, L) ==
    [result |-> result, event |-> event, Auctions |-> auctions, Bids |-> bids,
     free |-> L.free, reserved |-> L.reserved]

Err(S, error) == Outcome(error, NoEvent, S.Auctions, S.Bids, Ledger(S))

Panic(S) == Err(S, "Panic")

top_bid(S, auction_key) == S.Bids[<<auction_key, DefaultKey>>]

has_top_bid(S, auction_key) == <<auction_key, DefaultKey>> \in DOMAIN S.Bids

----------------------------------------------------------------------------
(* An initial block one after the block of the call. *)
create_initial_block_next(S) == S.now + 1

(* The initial block create records: the block number of the call. *)
create_initial_block(S) == S.now

create(S, owner, arbitrator, bounty, deposit, terminal_block, data) ==
    IF bounty < MinBounty THEN Err(S, "MinBountyRequired")
    ELSE IF deposit < MinDeposit THEN Err(S, "MinDepositRequired")
    ELSE IF Len(data) > MaxDataSize THEN Err(S, "MaxDataSizeExceeded")
    ELSE IF ~reserve_ok(Ledger(S), owner, bounty + deposit)
    THEN Err(S, "InsufficientBalance")
    ELSE
        LET auction_key == <<owner, S.account_nonce[owner]>>
            auction == [arbitrator |-> arbitrator, bounty |-> bounty,
                        deposit |-> deposit, initial_block |-> create_initial_block(S),
                        terminal_block |-> terminal_block, data |-> data,
                        in_dispute |-> FALSE]
        IN  Outcome("Ok",
                    [name |-> "Created", auction_key |-> auction_key,
                     bounty |-> bounty, terminal_block |-> terminal_block],
                    insert(S.Auctions, auction_key, auction),
                    S.Bids,
                    reserve(Ledger(S), owner, bounty + deposit))

extend(S, owner, auction_key, bounty, terminal_block) ==
    IF auction_key \notin DOMAIN S.Auctions THEN Err(S, "AuctionKeyNotFound")
    ELSE
        LET auction == S.Auctions[auction_key]
        IN  IF owner # auction_key[1] THEN Err(S, "OwnerRequired")
            ELSE IF has_top_bid(S, auction_key)
                    /\ is_assigned(auction, top_bid(S, auction_key)[2], S.now)
            THEN Err(S, "AuctionAssigned")
            ELSE IF ~(bounty > auction.bounty) THEN Err(S, "MinBountyRequired")
            ELSE IF ~reserve_ok(Ledger(S), owner, bounty - auction.bounty)
            THEN Err(S, "InsufficientBalance")
            ELSE Outcome("Ok",
                         [name |-> "Extended", auction_key |-> auction_key,
                          bounty |-> bounty, terminal_block |-> terminal_block],
                         insert(S.Auctions, auction_key,
                                [auction EXCEPT !.bounty = bounty,
                                                !.terminal_block = terminal_block]),
                         S.Bids,
                         reserve(Ledger(S), owner, bounty - auction.bounty))

(* A check that lets a bid through at the price of the previous one. *)
min_bid_ratio_met_or_equal(prev_price, price) ==
    prev_price * MinBidRatio >= price * 255

(* A check at about half the ratio: the new price must be under half the  *)
(* previous one.                                                           *)
min_bid_ratio_met_half(prev_price, price) == prev_price * 127 > price * 255

(* The check of bid that the new price undercuts the previous one. *)
min_bid_ratio_met(prev_price, price) == prev_price * MinBidRatio > price * 255

(* A key that repeats the sequence number of the previous bid. *)
bid_key_same_seq(bidder, prev_key) == <<bidder, prev_key[2]>>

(* The key bid gives the new entry: the bidder and the sequence number     *)
(* after the previous bid's.                                               *)
next_bid_key(bidder, prev_key) == <<bidder, prev_key[2] + 1>>

(* An insert that records the price in the entry but not in the head,     *)
(* which keeps price 0.                                                    *)
bid_insert_head_unpriced(S, L, bidder, auction_key, price, prev_key) ==
    LET auction == S.Auctions[auction_key]
        bid_key == <<bidder, prev_key[2] + 1>>
    IN  IF ~reserve_ok(L, bidder, auction.deposit)
        THEN Outcome("InsufficientBalance", NoEvent, S.Auctions, S.Bids, L)
        ELSE Outcome("Ok",
                     [name |-> "Bid", auction_key |-> auction_key,
                      bid_key |-> bid_key, price |-> price],
                     S.Auctions,
                     insert(insert(S.Bids, <<auction_key, bid_key>>, <<prev_key, price>>),
                            <<auction_key, DefaultKey>>, <<bid_key, 0>>),
                     reserve(L, bidder, auction.deposit))

(* The part of bid after its checks on the previous bid: L is the ledger   *)
(* as those checks left it (the previous bidder's deposit unreserved).     *)
bid_insert(S, L, bidder, auction_key, price, prev_key) ==
    LET auction == S.Auctions[auction_key]
        bid_key == next_bid_key(bidder, prev_key)
    IN  IF ~reserve_ok(L, bidder, auction.deposit)
        THEN Outcome("InsufficientBalance", NoEvent, S.Auctions, S.Bids, L)
        ELSE Outcome("Ok",
                     [name |-> "Bid", auction_key |-> auction_key,
                      bid_key |-> bid_key, price |-> price],
                     S.Auctions,
                     insert(insert(S.Bids, <<auction_key, bid_key>>, <<prev_key, price>>),
                            <<auction_key, DefaultKey>>, <<bid_key, price>>),
                     reserve(L, bidder, auction.deposit))

bid(S, bidder, auction_key, price) ==
    IF auction_key \notin DOMAIN S.Auctions THEN Err(S, "AuctionKeyNotFound")
    ELSE
        LET auction == S.Auctions[auction_key]
        IN  IF bidder = auction_key[1] THEN Err(S, "OriginProhibited")
            ELSE IF bidder = auction.arbitrator THEN Err(S, "OriginProhibited")
            ELSE IF has_top_bid(S, auction_key)
            THEN LET prev_key == top_bid(S, auction_key)[1]
                     prev_price == top_bid(S, auction_key)[2]
                 IN  IF is_assigned(auction, prev_price, S.now)
                     THEN Err(S, "AuctionAssigned")
                     ELSE IF ~min_bid_ratio_met(prev_price, price)
                     THEN Err(S, "MinBidRatioRequired")
                     ELSE bid_insert(S, unreserve(Ledger(S), prev_key[1], auction.deposit),
                                     bidder, auction_key, price, prev_key)
            ELSE IF ~(auction.bounty >= price) THEN Err(S, "MinBidRatioRequired")
            ELSE bid_insert(S, Ledger(S), bidder, auction_key, price, DefaultKey)

(* A test that re-installs the entry below whatever its bidder holds. *)
retract_reinstate_always(L, prev_key, deposit) == TRUE

(* The test of the loop of retract: the bidder of the entry below can      *)
(* reserve the deposit again.                                              *)
retract_can_reinstate(L, prev_key, deposit) == reserve_ok(L, prev_key[1], deposit)

(* The loop of retract: pops top_key and walks down the stack until a      *)
(* bidder can reserve the deposit again or the stack is empty.             *)
RECURSIVE retract_loop(_, _, _, _, _)
retract_loop(S, bids, L, auction_key, top_key) ==
    LET auction == S.Auctions[auction_key]
    IN  IF <<auction_key, top_key>> \notin DOMAIN bids THEN Panic(S)
        ELSE
            LET prev_key == bids[<<auction_key, top_key>>][1]
                taken == remove(bids, <<auction_key, top_key>>)
            IN  IF prev_key = DefaultKey
                THEN Outcome("Ok",
                             [name |-> "Retracted", auction_key |-> auction_key,
                              bid_key |-> prev_key, price |-> auction.bounty],
                             S.Auctions,
                             remove_prefix(taken, auction_key),
                             L)
                ELSE IF retract_can_reinstate(L, prev_key, auction.deposit)
                THEN IF <<auction_key, prev_key>> \notin DOMAIN taken THEN Panic(S)
                     ELSE
                        LET prev_price == taken[<<auction_key, prev_key>>][2]
                        IN  Outcome("Ok",
                                    [name |-> "Retracted", auction_key |-> auction_key,
                                     bid_key |-> prev_key, price |-> prev_price],
                                    S.Auctions,
                                    insert(taken, <<auction_key, DefaultKey>>,
                                           <<prev_key, prev_price>>),
                                    reserve(L, prev_key[1], auction.deposit))
                ELSE retract_loop(S, taken, L, auction_key, prev_key)

(* A retract that lets an assigned bidder off without the penalty. *)
retract_no_penalty(L, bidder, owner, deposit) == L

(* The transfer of retract: an assigned bidder loses the deposit to the owner. *)
retract_penalty(L, bidder, owner, deposit) == transfer(L, bidder, owner, deposit)

(* A check that lets a bid be retracted while the auction is in dispute. *)
retract_dispute_ignored(auction) == FALSE

(* The check of retract that the auction is in dispute. *)
retract_in_dispute(auction) == auction.in_dispute

retract(S, bidder, auction_key) ==
    IF auction_key \notin DOMAIN S.Auctions THEN Err(S, "AuctionKeyNotFound")
    ELSE IF ~has_top_bid(S, auction_key) THEN Err(S, "TopBidRequired")
    ELSE
        LET auction == S.Auctions[auction_key]
            top_key == top_bid(S, auction_key)[1]
            top_price == top_bid(S, auction_key)[2]
            L1 == unreserve(Ledger(S), bidder, auction.deposit)
        IN  IF bidder # top_key[1] THEN Err(S, "TopBidRequired")
            ELSE IF retract_in_dispute(auction) THEN Err(S, "AuctionDisputed")
            ELSE IF is_assigned(auction, top_price, S.now)
            THEN IF ~transfer_ok(L1, bidder, auction_key[1], auction.deposit)
                 THEN Panic(S)
                 ELSE retract_loop(S, S.Bids,
                                   retract_penalty(L1, bidder, auction_key[1],
                                                   auction.deposit),
                                   auction_key, top_key)
            ELSE retract_loop(S, S.Bids, L1, auction_key, top_key)

(* A payment that credits the bidder without debiting the owner. *)
confirm_payment_minted(L, owner, bidder, price) ==
    [free |-> [L.free EXCEPT ![bidder] = @ + price], reserved |-> L.reserved]

(* The transfer of confirm: the owner pays the bidder the agreed price. *)
confirm_payment(L, owner, bidder, price) == transfer(L, owner, bidder, price)

confirm(S, owner, auction_key) ==
    IF auction_key \notin DOMAIN S.Auctions THEN Err(S, "AuctionKeyNotFound")
    ELSE IF owner # auction_key[1] THEN Err(S, "OwnerRequired")
    ELSE IF ~has_top_bid(S, auction_key) THEN Err(S, "AuctionNotAssigned")
    ELSE
        LET auction == S.Auctions[auction_key]
            bidder == top_bid(S, auction_key)[1][1]
            price == top_bid(S, auction_key)[2]
            L1 == unreserve(Ledger(S), bidder, auction.deposit)
            L2 == unreserve(L1, owner, auction.deposit + auction.bounty)
        IN  IF ~is_assigned(auction, price, S.now) THEN Err(S, "AuctionNotAssigned")
            ELSE IF ~transfer_ok(L2, owner, bidder, price) THEN Panic(S)
            ELSE Outcome("Ok",
                         [name |-> "Confirmed", auction_key |-> auction_key],
                         remove(S.Auctions, auction_key),
                         remove_prefix(S.Bids, auction_key),
                         confirm_payment(L2, owner, bidder, price))

cancel(S, owner, auction_key) ==
    IF auction_key \notin DOMAIN S.Auctions THEN Err(S, "AuctionKeyNotFound")
    ELSE IF owner # auction_key[1] THEN Err(S, "OwnerRequired")
    ELSE
        LET auction == S.Auctions[auction_key]
        IN  IF has_top_bid(S, auction_key)
            THEN LET bidder == top_bid(S, auction_key)[1][1]
                     price == top_bid(S, auction_key)[2]
                     L1 == unreserve(Ledger(S), bidder, auction.deposit)
                     L2 == unreserve(L1, owner, auction.deposit + auction.bounty)
                 IN  IF is_assigned(auction, price, S.now)
                     THEN Err(S, "AuctionAssigned")
                     ELSE IF ~transfer_ok(L2, owner, bidder, auction.deposit)
                     THEN Panic(S)
                     ELSE Outcome("Ok",
                                  [name |-> "Cancelled", auction_key |-> auction_key],
                                  remove(S.Auctions, auction_key),
                                  remove_prefix(S.Bids, auction_key),
                                  transfer(L2, owner, bidder, auction.deposit))
            ELSE Outcome("Ok",
                         [name |-> "Cancelled", auction_key |-> auction_key],
                         remove(S.Auctions, auction_key),
                         remove_prefix(S.Bids, auction_key),
                         unreserve(Ledger(S), owner, auction.deposit + auction.bounty))

(* A check that lets a dispute be opened on a top bid not assigned yet. *)
dispute_any_top_bid(auction, price, block) == TRUE

(* The check of dispute on the top bid: only assigned auctions can be      *)
(* disputed.                                                               *)
dispute_top_assigned(auction, price, block) == is_assigned(auction, price, block)

(* A check that lets any signer open a dispute. *)
dispute_origin_any(origin, bidder, owner) == TRUE

(* The check of dispute on its signer: the top bidder or the owner. *)
dispute_origin_allowed(origin, bidder, owner) == origin = bidder \/ origin = owner

dispute(S, origin, auction_key) ==
    IF auction_key \notin DOMAIN S.Auctions THEN Err(S, "AuctionKeyNotFound")
    ELSE
        LET auction == S.Auctions[auction_key]
        IN  IF auction.in_dispute THEN Err(S, "AuctionDisputed")
            ELSE IF ~has_top_bid(S, auction_key) THEN Err(S, "AuctionNotAssigned")
            ELSE IF ~dispute_top_assigned(auction, top_bid(S, auction_key)[2], S.now)
            THEN Err(S, "AuctionNotAssigned")
            ELSE IF ~dispute_origin_allowed(origin, top_bid(S, auction_key)[1][1],
                                            auction_key[1])
            THEN Err(S, "OriginProhibited")
            ELSE Outcome("Ok",
                         [name |-> "Disputed", auction_key |-> auction_key],
                         insert(S.Auctions, auction_key,
                                [auction EXCEPT !.in_dispute = TRUE]),
                         S.Bids,
                         Ledger(S))

arbitrate(S, arbitrator, auction_key, fulfilled) ==
    IF auction_key \notin DOMAIN S.Auctions THEN Err(S, "AuctionKeyNotFound")
    ELSE
        LET auction == S.Auctions[auction_key]
        IN  IF arbitrator # auction.arbitrator THEN Err(S, "OriginProhibited")
            ELSE IF ~auction.in_dispute THEN Err(S, "AuctionDisputed")
            ELSE IF ~has_top_bid(S, auction_key) THEN Panic(S)
            ELSE
                LET bidder == top_bid(S, auction_key)[1][1]
                    price == top_bid(S, auction_key)[2]
                    L1 == unreserve(Ledger(S), auction_key[1],
                                    auction.deposit + auction.bounty)
                    L2 == unreserve(L1, bidder, auction.deposit)
                    paid == fulfilled /\ transfer_ok(L2, auction_key[1], bidder, price)
                    L3 == IF fulfilled
                          THEN transfer(L2, auction_key[1], bidder, price)
                          ELSE L2
                    loser == IF fulfilled THEN auction_key[1] ELSE bidder
                IN  IF fulfilled /\ ~paid THEN Panic(S)
                    ELSE IF ~transfer_ok(L3, loser, arbitrator, auction.deposit)
                    THEN Panic(S)
                    ELSE Outcome("Ok",
                                 [name |-> "Arbitrated", auction_key |-> auction_key,
                                  fulfilled |-> fulfilled],
                                 remove(S.Auctions, auction_key),
                                 remove_prefix(S.Bids, auction_key),
                                 transfer(L3, loser, arbitrator, auction.deposit))

----------------------------------------------------------------------------
(* Inputs of the calls. *)

Bounties == 0 .. MaxBounty
Deposits == 0 .. MaxDeposit
Prices == 0 .. MaxBounty + 1
CreateBlocks == {MaxBlock, MaxBlock + 1}   \* terminal blocks offered to create
ExtendBlocks == {0, MaxBlock + 1}   \* terminal blocks offered to extend
DataValues == {<<7>>, <<7, 7>>}

(* The keys the calls are tried on: every live auction, and the default    *)
(* key, which stands for the keys that have no auction.                    *)
KeysTried == DOMAIN Auctions \cup {DefaultKey}

Init ==
    /\ Auctions = <<>>
    /\ Bids = <<>>
    /\ free = [who \in Accounts |-> GenesisBalance(who)]
    /\ reserved = [who \in Accounts |-> 0]
    /\ now = 1
    /\ account_nonce = [who \in Accounts |-> 0]
    /\ last_event = NoEvent
    /\ event_count = 0

(* The host dispatches one call: the storage becomes the outcome's, and    *)
(* the event of a call that returned Ok is deposited.                      *)
Dispatch(o) ==
    /\ event_count < MaxEvents
    /\ Auctions' = o.Auctions
    /\ Bids' = o.Bids
    /\ free' = o.free
    /\ reserved' = o.reserved
    /\ last_event' = IF o.result = "Ok" THEN o.event ELSE last_event
    /\ event_count' = IF o.result = "Ok" THEN event_count + 1 ELSE event_count
    /\ UNCHANGED <<now, account_nonce>>

Create(owner, arbitrator, bounty, deposit, terminal_block, data) ==
    Dispatch(create(State, owner, arbitrator, bounty, deposit, terminal_block, data))

Extend(owner, auction_key, bounty, terminal_block) ==
    Dispatch(extend(State, owner, auction_key, bounty, terminal_block))

BidCall(bidder, auction_key, price) ==
    /\ has_top_bid(State, auction_key) => top_bid(State, auction_key)[1][2] < MaxSeq
    /\ Dispatch(bid(State, bidder, auction_key, price))

Retract(bidder, auction_key) ==
    Dispatch(retract(State, bidder, auction_key))

Confirm(owner, auction_key) ==
    Dispatch(confirm(State, owner, auction_key))

Cancel(owner, auction_key) ==
    Dispatch(cancel(State, owner, auction_key))

Dispute(origin, auction_key) ==
    Dispatch(dispute(State, origin, auction_key))

Arbitrate(arbitrator, auction_key, fulfilled) ==
    Dispatch(arbitrate(State, arbitrator, auction_key, fulfilled))

(* The host: the block number advances, an account's nonce advances. *)
(* Only the advances that take an account off the key of a live auction   *)
(* are taken: any other leads to a state that differs in the name of a     *)
(* key no auction has used.                                                *)
set_block_number ==
    /\ now < MaxBlock
    /\ now' = now + 1
    /\ UNCHANGED <<Auctions, Bids, free, reserved, account_nonce, last_event, event_count>>

inc_account_nonce(who) ==
    /\ account_nonce[who] < MaxNonce
    /\ <<who, account_nonce[who]>> \in DOMAIN Auctions
    /\ account_nonce' = [account_nonce EXCEPT ![who] = @ + 1]
    /\ UNCHANGED <<Auctions, Bids, free, reserved, now, last_event, event_count>>

Next ==
    \/ \E owner \in Accounts, arbitrator \in Accounts, bounty \in Bounties,
          deposit \in Deposits, terminal_block \in CreateBlocks, data \in DataValues :
            Create(owner, arbitrator, bounty, deposit, terminal_block, data)
    \/ \E owner \in Accounts, auction_key \in KeysTried, bounty \in Bounties,
          terminal_block \in ExtendBlocks :
            Extend(owner, auction_key, bounty, terminal_block)
    \/ \E bidder \in Accounts, auction_key \in KeysTried, price \in Prices :
            BidCall(bidder, auction_key, price)
    \/ \E bidder \in Accounts, auction_key \in KeysTried : Retract(bidder, auction_key)
    \/ \E owner \in Accounts, auction_key \in KeysTried : Confirm(owner, auction_key)
    \/ \E owner \in Accounts, auction_key \in KeysTried : Cancel(owner, auction_key)
    \/ \E origin \in Accounts, auction_key \in KeysTried : Dispute(origin, auction_key)
    \/ \E arbitrator \in Accounts, auction_key \in KeysTried, fulfilled \in BOOLEAN :
            Arbitrate(arbitrator, auction_key, fulfilled)
    \/ set_block_number
    \/ \E who \in Accounts : inc_account_nonce(who)

Spec == Init /\ [][Next]_vars

(* A second genesis: the last account is endowed with enough to create     *)
(* twice, the others with one deposit each.                                *)
FundedBalance(who) == IF who = MaxAccount THEN 5 ELSE 1

InitFunded ==
    /\ Auctions = <<>>
    /\ Bids = <<>>
    /\ free = [who \in Accounts |-> FundedBalance(who)]
    /\ reserved = [who \in Accounts |-> 0]
    /\ now = 1
    /\ account_nonce = [who \in Accounts |-> 0]
    /\ last_event = NoEvent
    /\ event_count = 0

SpecFunded == InitFunded /\ [][Next]_vars

(* A third start, four events into a run: the last account has created    *)
(* an auction, naming itself arbitrator, and has extended it to a bounty   *)
(* of MaxBounty + 1, and the two other accounts have bid three times on    *)
(* it, at prices 3, 2 and 1; the top bidder holds the deposit and what the *)
(* accounts have left free is drawn from 0 .. 2.                           *)
StackOwner == MaxAccount

StackKey == <<StackOwner, 0>>

StackBidders == Accounts \ {StackOwner}

InitStack ==
    \E first \in StackBidders, second \in StackBidders, third \in StackBidders :
        /\ Auctions = insert(<<>>, StackKey,
                             [arbitrator |-> StackOwner, bounty |-> MaxBounty + 1,
                              deposit |-> 1, initial_block |-> 1,
                              terminal_block |-> MaxBlock + 1, data |-> <<7>>,
                              in_dispute |-> FALSE])
        /\ Bids = insert(insert(insert(insert(<<>>,
                        <<StackKey, <<first, 1>>>>, <<DefaultKey, 3>>),
                        <<StackKey, <<second, 2>>>>, <<<<first, 1>>, 2>>),
                        <<StackKey, <<third, 3>>>>, <<<<second, 2>>, 1>>),
                        <<StackKey, DefaultKey>>, <<<<third, 3>>, 1>>)
        /\ free \in [Accounts -> 0 .. 2]
        /\ reserved = [who \in Accounts |->
                            IF who = StackOwner THEN MaxBounty + 2
                            ELSE IF who = third THEN 1 ELSE 0]
        /\ now \in 1 .. MaxBlock
        /\ account_nonce = [who \in Accounts |-> 0]
        /\ last_event = [name |-> "Bid", auction_key |-> StackKey,
                         bid_key |-> <<third, 3>>, price |-> 1]
        /\ event_count = 4

SpecStack == InitStack /\ [][Next]_vars

----------------------------------------------------------------------------
(* Vocabulary of the properties. *)

RECURSIVE SumUpTo(_, _)
SumUpTo(f, n) == IF n < 0 THEN 0 ELSE f[n] + SumUpTo(f, n - 1)

(* An account's funds, free and reserved together, in a ledger, a storage  *)
(* or an outcome.                                                          *)
TotalBalance(L, who) == L.free[who] + L.reserved[who]

TotalIssuance(L) == SumUpTo([who \in Accounts |-> TotalBalance(L, who)], MaxAccount)

GenesisIssuance == SumUpTo([who \in Accounts |-> GenesisBalance(who)], MaxAccount)

(* The owner, the arbitrator and the top bidder of a live auction. *)
Parties(S, auction_key) ==
    IF auction_key \notin DOMAIN S.Auctions THEN {}
    ELSE {auction_key[1], S.Auctions[auction_key].arbitrator}
            \cup (IF has_top_bid(S, auction_key)
                  THEN {top_bid(S, auction_key)[1][1]} ELSE {})

(* P(o, auction_key) holds of the outcome o of every call that can be      *)
(* dispatched in the current state, auction_key being the key it is on.    *)
EveryOutcome(P(_, _)) ==
    /\ \A owner \in Accounts, arbitrator \in Accounts, bounty \in Bounties,
          deposit \in Deposits, terminal_block \in CreateBlocks, data \in DataValues :
            P(create(State, owner, arbitrator, bounty, deposit, terminal_block, data),
              <<owner, account_nonce[owner]>>)
    /\ \A owner \in Accounts, auction_key \in KeysTried, bounty \in Bounties,
          terminal_block \in ExtendBlocks :
            P(extend(State, owner, auction_key, bounty, terminal_block), auction_key)
    /\ \A bidder \in Accounts, auction_key \in KeysTried, price \in Prices :
            P(bid(State, bidder, auction_key, price), auction_key)
    /\ \A who \in Accounts, auction_key \in KeysTried :
            /\ P(retract(State, who, auction_key), auction_key)
            /\ P(confirm(State, who, auction_key), auction_key)
            /\ P(cancel(State, who, auction_key), auction_key)
            /\ P(dispute(State, who, auction_key), auction_key)
            /\ \A fulfilled \in BOOLEAN :
                    P(arbitrate(State, who, auction_key, fulfilled), auction_key)

----------------------------------------------------------------------------
(* C1. Fund conservation: in every reachable state the sum over all        *)
(* accounts of free + reserved is the sum at genesis, and every step,      *)
(* a successful or a failed call or a block advance, changes the funds of  *)
(* no account other than the owner, the arbitrator and the top bidder of   *)
(* one live auction.                                                       *)
C1_Moved == {who \in Accounts : TotalBalance(State, who)' # TotalBalance(State, who)}

C1_FundConservation ==
    /\ [](TotalIssuance(State) = GenesisIssuance)
    /\ [][C1_Moved # {}
            => \E auction_key \in DOMAIN Auctions :
                    C1_Moved \subseteq Parties(State, auction_key)]_vars

(* Funds have moved between accounts: a settlement has paid someone. *)
C1_Witness ==
    /\ last_event.name \in {"Retracted", "Confirmed", "Cancelled"}
    /\ \E who \in Accounts : TotalBalance(State, who) > GenesisBalance(who)

(* C2. Atomicity on error: every call that returns an error leaves the     *)
(* auction registry, the bid stacks and every free and reserved balance as *)
(* they were before the call.                                              *)
C2_Unchanged(o, auction_key) ==
    o.result # "Ok"
        => /\ o.Auctions = Auctions
           /\ o.Bids = Bids
           /\ o.free = free
           /\ o.reserved = reserved

C2_AtomicOnError == EveryOutcome(C2_Unchanged)

(* C3. Reserve coherence: in every reachable state each account's reserved *)
(* balance is the sum of bounty + deposit over the live auctions it owns   *)
(* plus the deposit of every live auction whose top bidder it is.          *)
RECURSIVE SumOver(_, _)
SumOver(f, keys) ==
    IF keys = {} THEN 0
    ELSE LET k == CHOOSE x \in keys : TRUE
         IN  f[k] + SumOver(f, keys \ {k})

ExpectedReserve(S, who) ==
    SumOver([k \in DOMAIN S.Auctions |->
                (IF k[1] = who
                 THEN S.Auctions[k].bounty + S.Auctions[k].deposit ELSE 0)
                + (IF has_top_bid(S, k) /\ top_bid(S, k)[1][1] = who
                   THEN S.Auctions[k].deposit ELSE 0)],
            DOMAIN S.Auctions)

C3_ReserveCoherence ==
    \A who \in Accounts : reserved[who] = ExpectedReserve(State, who)

(* C4. Terminal cleanliness: a successful confirm, cancel or arbitrate     *)
(* leaves no record under the auction key and no entry, sentinel head or   *)
(* bid, under it in the bid map; so it is in the state right after one.    *)
C4_Clean(o, auction_key) ==
    o.result = "Ok"
        => /\ auction_key \notin DOMAIN o.Auctions
           /\ \A x \in DOMAIN o.Bids : x[1] # auction_key

C4_TerminalCleanliness ==
    /\ \A who \in Accounts, auction_key \in KeysTried :
            /\ C4_Clean(confirm(State, who, auction_key), auction_key)
            /\ C4_Clean(cancel(State, who, auction_key), auction_key)
            /\ \A fulfilled \in BOOLEAN :
                    C4_Clean(arbitrate(State, who, auction_key, fulfilled), auction_key)
    /\ last_event.name \in {"Confirmed", "Cancelled", "Arbitrated"}
            => /\ last_event.auction_key \notin DOMAIN Auctions
               /\ \A x \in DOMAIN Bids : x[1] # last_event.auction_key

(* An arbitration has just settled a disputed auction and removed it. *)
C4_Witness ==
    /\ last_event.name = "Arbitrated"
    /\ last_event.auction_key \notin DOMAIN Auctions

(* C5. Bid-stack price monotonicity: every bid entry whose predecessor is  *)
(* a real bid has a price strictly below its predecessor's, and the top    *)
(* bid is the lowest-priced entry of its auction's stack.                  *)
C5_PriceMonotonicity ==
    /\ \A x \in DOMAIN Bids :
            (x[2] # DefaultKey /\ Bids[x][1] # DefaultKey)
                => /\ <<x[1], Bids[x][1]>> \in DOMAIN Bids
                   /\ Bids[x][2] < Bids[<<x[1], Bids[x][1]>>][2]
    /\ \A x \in DOMAIN Bids :
            /\ <<x[1], DefaultKey>> \in DOMAIN Bids
            /\ Bids[<<x[1], DefaultKey>>][2] <= Bids[x][2]

(* A stack holds a bid placed on top of another bid. *)
C5_Witness ==
    \E x \in DOMAIN Bids :
        /\ x[2] # DefaultKey
        /\ Bids[x][1] # DefaultKey
        /\ Bids[<<x[1], DefaultKey>>][1] = x[2]

(* C6. Assignment monotonicity in time: for a live record and blocks       *)
(* t < t' from its initial block on, the base price at t is at most the    *)
(* base price at t', a price assigned at t is assigned at t', and from the *)
(* terminal block on the base price is the bounty.                         *)
C6_AssignmentMonotonicity ==
    \A auction_key \in DOMAIN Auctions :
        LET auction == Auctions[auction_key]
            Later == auction.initial_block .. (MaxBlock + 2)
        IN  /\ \A t \in Later, t2 \in Later :
                    t < t2
                        => /\ get_base_price(auction, t) <= get_base_price(auction, t2)
                           /\ \A p \in Prices :
                                    is_assigned(auction, p, t) => is_assigned(auction, p, t2)
            /\ \A t \in Later :
                    t >= auction.terminal_block
                        => get_base_price(auction, t) = auction.bounty

(* A live record is between its initial and terminal blocks, with a base   *)
(* price strictly between 0 and the bounty, and a price that is not        *)
(* assigned now is assigned one block later.                               *)
C6_Witness ==
    \E auction_key \in DOMAIN Auctions, p \in Prices :
        LET auction == Auctions[auction_key]
        IN  /\ 0 < get_base_price(auction, now)
            /\ get_base_price(auction, now) < auction.bounty
            /\ ~is_assigned(auction, p, now)
            /\ is_assigned(auction, p, now + 1)

(* The storage after a call, from the storage before it and its outcome. *)
After(S, o) ==
    [Auctions |-> o.Auctions, Bids |-> o.Bids, free |-> o.free,
     reserved |-> o.reserved, now |-> S.now, account_nonce |-> S.account_nonce]

(* C7. Round trip: a successful create followed at once by cancel by the   *)
(* same owner leaves every free and reserved balance as before the create, *)
(* and no record and no bid entry under the key.                           *)
C7_CreateCancelRoundTrip ==
    \A owner \in Accounts, arbitrator \in Accounts, bounty \in Bounties,
       deposit \in Deposits, terminal_block \in CreateBlocks, data \in DataValues :
        LET auction_key == <<owner, account_nonce[owner]>>
            created == create(State, owner, arbitrator, bounty, deposit,
                              terminal_block, data)
            cancelled == cancel(After(State, created), owner, auction_key)
        IN  created.result = "Ok"
                => /\ cancelled.free = free
                   /\ cancelled.reserved = reserved
                   /\ auction_key \notin DOMAIN cancelled.Auctions
                   /\ \A x \in DOMAIN cancelled.Bids : x[1] # auction_key

(* C8. Confirm settlement: confirm by the owner of a live auction succeeds *)
(* exactly when a top bid exists and is assigned, and fails with           *)
(* AuctionNotAssigned otherwise; on success the owner's funds decrease by  *)
(* the top price, the top bidder's increase by it, no other account's      *)
(* funds change, and the reserves the two held for the auction (the        *)
(* owner's bounty + deposit, the bidder's deposit) are released.           *)
C8_ConfirmSettlement ==
    \A auction_key \in DOMAIN Auctions :
        LET auction == Auctions[auction_key]
            owner == auction_key[1]
            o == confirm(State, owner, auction_key)
        IN  IF has_top_bid(State, auction_key)
               /\ is_assigned(auction, top_bid(State, auction_key)[2], now)
            THEN LET bidder == top_bid(State, auction_key)[1][1]
                     price == top_bid(State, auction_key)[2]
                 IN  /\ o.result = "Ok"
                     /\ bidder # owner
                     /\ TotalBalance(o, owner) = TotalBalance(State, owner) - price
                     /\ TotalBalance(o, bidder) = TotalBalance(State, bidder) + price
                     /\ \A who \in Accounts \ {owner, bidder} :
                            TotalBalance(o, who) = TotalBalance(State, who)
                     /\ reserved[owner] >= auction.bounty + auction.deposit
                            => o.reserved[owner]
                                    = reserved[owner] - (auction.bounty + auction.deposit)
                     /\ reserved[bidder] >= auction.deposit
                            => o.reserved[bidder] = reserved[bidder] - auction.deposit
            ELSE o.result = "AuctionNotAssigned"

(* C9. Cancel settlement: cancel by the owner of a live auction fails with *)
(* AuctionAssigned when the top bid is assigned; when a top bid exists and *)
(* is not assigned it succeeds, the owner's funds decrease by the deposit, *)
(* the top bidder's increase by it and both reserves are released; when no *)
(* bid exists it succeeds and only releases the owner's bounty + deposit.  *)
C9_CancelSettlement ==
    \A auction_key \in DOMAIN Auctions :
        LET auction == Auctions[auction_key]
            owner == auction_key[1]
            o == cancel(State, owner, auction_key)
            held == auction.bounty + auction.deposit
        IN  IF has_top_bid(State, auction_key)
            THEN LET bidder == top_bid(State, auction_key)[1][1]
                     price == top_bid(State, auction_key)[2]
                 IN  IF is_assigned(auction, price, now)
                     THEN o.result = "AuctionAssigned"
                     ELSE /\ o.result = "Ok"
                          /\ bidder # owner
                          /\ TotalBalance(o, owner)
                                = TotalBalance(State, owner) - auction.deposit
                          /\ TotalBalance(o, bidder)
                                = TotalBalance(State, bidder) + auction.deposit
                          /\ \A who \in Accounts \ {owner, bidder} :
                                TotalBalance(o, who) = TotalBalance(State, who)
                          /\ reserved[owner] >= held
                                => o.reserved[owner] = reserved[owner] - held
                          /\ reserved[bidder] >= auction.deposit
                                => o.reserved[bidder] = reserved[bidder] - auction.deposit
            ELSE /\ o.result = "Ok"
                 /\ \A who \in Accounts : TotalBalance(o, who) = TotalBalance(State, who)
                 /\ \A who \in Accounts \ {owner} :
                        o.free[who] = free[who] /\ o.reserved[who] = reserved[who]
                 /\ reserved[owner] >= held
                        => o.reserved[owner] = reserved[owner] - held

(* C10. Retract penalty: on a successful retract of a top bid that is      *)
(* assigned, the bidder's funds decrease by the deposit, the owner's free  *)
(* balance increases by it and nobody else's funds change; on a successful *)
(* retract of a top bid that is not assigned, nobody's funds change, the   *)
(* owner's balances stay as they are and the bidder's deposit is released  *)
(* (unless the bidder is the new top bidder too, and holds it again).      *)
C10_RetractPenalty ==
    \A bidder \in Accounts, auction_key \in DOMAIN Auctions :
        LET auction == Auctions[auction_key]
            owner == auction_key[1]
            o == retract(State, bidder, auction_key)
        IN  o.result = "Ok"
                => /\ bidder # owner
                   /\ o.reserved[owner] = reserved[owner]
                   /\ \A who \in Accounts \ {owner, bidder} :
                            TotalBalance(o, who) = TotalBalance(State, who)
                   /\ IF is_assigned(auction, top_bid(State, auction_key)[2], now)
                      THEN /\ TotalBalance(o, bidder)
                                = TotalBalance(State, bidder) - auction.deposit
                           /\ o.free[owner] = free[owner] + auction.deposit
                      ELSE /\ TotalBalance(o, bidder) = TotalBalance(State, bidder)
                           /\ o.free[owner] = free[owner]
                           /\ reserved[bidder] >= auction.deposit
                                => o.reserved[bidder]
                                    = reserved[bidder] - auction.deposit
                                        + (IF o.event.bid_key[1] = bidder
                                              /\ o.event.bid_key # DefaultKey
                                           THEN auction.deposit ELSE 0)

(* An assigned top bid has just been retracted and the owner has been paid *)
(* the deposit: the owner holds more than at genesis.                      *)
C10_Witness ==
    /\ last_event.name = "Retracted"
    /\ last_event.auction_key \in DOMAIN Auctions
    /\ TotalBalance(State, last_event.auction_key[1])
            > GenesisBalance(last_event.auction_key[1])

(* C11. Arbitrate settlement: a successful arbitrate on a disputed auction *)
(* releases the owner's bounty + deposit and the top bidder's deposit;     *)
(* with fulfilled the owner's funds decrease by the top price + deposit,   *)
(* the top bidder's increase by the top price and the arbitrator's by the  *)
(* deposit; without it the owner's funds are unchanged, the top bidder's   *)
(* decrease by the deposit and the arbitrator's increase by it.            *)
C11_ArbitrateSettlement ==
    \A auction_key \in DOMAIN Auctions, fulfilled \in BOOLEAN :
        LET auction == Auctions[auction_key]
            owner == auction_key[1]
            o == arbitrate(State, auction.arbitrator, auction_key, fulfilled)
            held == auction.bounty + auction.deposit
        IN  auction.in_dispute /\ o.result = "Ok"
                => LET bidder == top_bid(State, auction_key)[1][1]
                       price == top_bid(State, auction_key)[2]
                   IN  /\ reserved[owner] >= held
                            => o.reserved[owner] = reserved[owner] - held
                       /\ reserved[bidder] >= auction.deposit
                            => o.reserved[bidder] = reserved[bidder] - auction.deposit
                       /\ TotalBalance(o, auction.arbitrator)
                            = TotalBalance(State, auction.arbitrator) + auction.deposit
                       /\ IF fulfilled
                          THEN /\ TotalBalance(o, owner)
                                    = TotalBalance(State, owner) - (price + auction.deposit)
                               /\ TotalBalance(o, bidder)
                                    = TotalBalance(State, bidder) + price
                          ELSE /\ TotalBalance(o, owner) = TotalBalance(State, owner)
                               /\ TotalBalance(o, bidder)
                                    = TotalBalance(State, bidder) - auction.deposit

C14_ArbitrateNotDisputed ==
    \A auction_key \in DOMAIN Auctions, fulfilled \in BOOLEAN :
        ~Auctions[auction_key].in_dispute
            => LET o == arbitrate(State, Auctions[auction_key].arbitrator,
                                  auction_key, fulfilled)
               IN  /\ o.result = "AuctionNotDisputed"
                   /\ o.Auctions = Auctions
                   /\ o.Bids = Bids
                   /\ o.free = free
                   /\ o.reserved = reserved

C16_PriceBoundedByBounty ==
    \A auction_key \in DOMAIN Auctions :
        LET auction == Auctions[auction_key]
        IN  /\ ~has_top_bid(State, auction_key)
                => \A bidder \in Accounts, price \in Prices :
                        price > auction.bounty
                            => bid(State, bidder, auction_key, price).result
                                    = IF bidder \in {auction_key[1], auction.arbitrator}
                                      THEN "OriginProhibited"
                                      ELSE "MinBidRatioRequired"
            /\ \A x \in DOMAIN Bids :
                    x[1] = auction_key => Bids[x][2] <= auction.bounty

(* C17. Role separation: in every reachable state the arbitrator of a live *)
(* auction is distinct from its owner and from the bidder of every entry   *)
(* of its stack, and no entry's bidder is the owner.                       *)
C17_RoleSeparation ==
    \A auction_key \in DOMAIN Auctions :
        LET auction == Auctions[auction_key]
        IN  /\ auction.arbitrator # auction_key[1]
            /\ \A x \in DOMAIN Bids :
                    (x[1] = auction_key /\ x[2] # DefaultKey)
                        => /\ x[2][1] # auction.arbitrator
                           /\ x[2][1] # auction_key[1]

(* C18. A disputed auction leaves the Disputed state only through          *)
(* arbitrate: extend, bid, retract, confirm, cancel and dispute all fail   *)
(* on an auction in dispute, whoever calls them, and every step from a     *)
(* state where an auction is in dispute either keeps its record in dispute *)
(* with the same top bid, bounty and terminal block, or is a successful    *)
(* arbitrate that removes the record.                                      *)
C18_Refused(auction_key) ==
    /\ \A owner \in Accounts, bounty \in Bounties, terminal_block \in ExtendBlocks :
            extend(State, owner, auction_key, bounty, terminal_block).result # "Ok"
    /\ \A bidder \in Accounts, price \in Prices :
            bid(State, bidder, auction_key, price).result # "Ok"
    /\ \A who \in Accounts :
            /\ retract(State, who, auction_key).result # "Ok"
            /\ confirm(State, who, auction_key).result # "Ok"
            /\ cancel(State, who, auction_key).result # "Ok"
            /\ dispute(State, who, auction_key).result # "Ok"

C18_Kept(auction_key) ==
    \/ /\ auction_key \in DOMAIN Auctions'
       /\ Auctions'[auction_key].in_dispute
       /\ Auctions'[auction_key].bounty = Auctions[auction_key].bounty
       /\ Auctions'[auction_key].terminal_block = Auctions[auction_key].terminal_block
       /\ <<auction_key, DefaultKey>> \in DOMAIN Bids'
       /\ Bids'[<<auction_key, DefaultKey>>] = Bids[<<auction_key, DefaultKey>>]
    \/ /\ auction_key \notin DOMAIN Auctions'
       /\ last_event'.name = "Arbitrated"
       /\ last_event'.auction_key = auction_key

C18_DisputedUntilArbitrate ==
    /\ [](\A auction_key \in DOMAIN Auctions :
            Auctions[auction_key].in_dispute => C18_Refused(auction_key))
    /\ [][\A auction_key \in DOMAIN Auctions :
            Auctions[auction_key].in_dispute => C18_Kept(auction_key)]_vars

(* The states of a live auction in a storage S: Open when it is not in     *)
(* dispute and its top bid, if any, is not assigned; Closed when it is not *)
(* in dispute and its top bid is assigned.                                 *)
Open(S, auction_key) ==
    /\ auction_key \in DOMAIN S.Auctions
    /\ ~S.Auctions[auction_key].in_dispute
    /\ has_top_bid(S, auction_key)
            => ~is_assigned(S.Auctions[auction_key], top_bid(S, auction_key)[2], S.now)

Closed(S, auction_key) ==
    /\ auction_key \in DOMAIN S.Auctions
    /\ ~S.Auctions[auction_key].in_dispute
    /\ has_top_bid(S, auction_key)
    /\ is_assigned(S.Auctions[auction_key], top_bid(S, auction_key)[2], S.now)

C20_KeyUniqueness ==
    \A owner \in Accounts, arbitrator \in Accounts, bounty \in Bounties,
       deposit \in Deposits, terminal_block \in CreateBlocks, data \in DataValues :
        LET o == create(State, owner, arbitrator, bounty, deposit, terminal_block, data)
        IN  o.result = "Ok"
                => /\ o.event.auction_key \notin DOMAIN Auctions
                   /\ \A auction_key \in DOMAIN Auctions :
                        o.Auctions[auction_key] = Auctions[auction_key]

(* The key of the nearest entry from k down, k included, whose bidder can  *)
(* reserve the deposit in the ledger L, or the sentinel key if none can;   *)
(* and the keys of the entries passed over on the way.                     *)
RECURSIVE NearestFunded(_, _, _, _, _)
NearestFunded(bids, L, auction_key, k, deposit) ==
    IF k = DefaultKey \/ <<auction_key, k>> \notin DOMAIN bids THEN DefaultKey
    ELSE IF reserve_ok(L, k[1], deposit) THEN k
    ELSE NearestFunded(bids, L, auction_key, bids[<<auction_key, k>>][1], deposit)

RECURSIVE Skipped(_, _, _, _, _)
Skipped(bids, L, auction_key, k, deposit) ==
    IF k = DefaultKey \/ <<auction_key, k>> \notin DOMAIN bids THEN {}
    ELSE IF reserve_ok(L, k[1], deposit) THEN {}
    ELSE {k} \cup Skipped(bids, L, auction_key, bids[<<auction_key, k>>][1], deposit)

(* C21. Retract descent: after a successful retract the new top is the     *)
(* nearest entry below the retracted one whose bidder could reserve the    *)
(* deposit at that moment, kept with its price and with that bidder's      *)
(* deposit reserved; the retracted entry and every entry passed over are   *)
(* removed, the other entries stay, and the bidders passed over get        *)
(* nothing reserved; if there is no such entry nothing is left under the   *)
(* auction's key and the Retracted event carries the sentinel key and the  *)
(* bounty as its price.                                                    *)
C21_RetractDescent ==
    \A auction_key \in DOMAIN Auctions :
        has_top_bid(State, auction_key)
            => LET auction == Auctions[auction_key]
                   top_key == top_bid(State, auction_key)[1]
                   bidder == top_key[1]
                   o == retract(State, bidder, auction_key)
                   L1 == unreserve(Ledger(State), bidder, auction.deposit)
                   L2 == IF is_assigned(auction, top_bid(State, auction_key)[2], now)
                         THEN transfer(L1, bidder, auction_key[1], auction.deposit)
                         ELSE L1
                   below == Bids[<<auction_key, top_key>>][1]
                   new_top == NearestFunded(Bids, L2, auction_key, below, auction.deposit)
                   gone == {top_key}
                            \cup Skipped(Bids, L2, auction_key, below, auction.deposit)
               IN  o.result = "Ok"
                    => /\ o.Auctions = Auctions
                       /\ \A x \in DOMAIN Bids : x[1] # auction_key
                            => x \in DOMAIN o.Bids /\ o.Bids[x] = Bids[x]
                       /\ \A x \in DOMAIN o.Bids : x[1] # auction_key => x \in DOMAIN Bids
                       /\ IF new_top = DefaultKey
                          THEN /\ \A x \in DOMAIN o.Bids : x[1] # auction_key
                               /\ o.event = [name |-> "Retracted",
                                             auction_key |-> auction_key,
                                             bid_key |-> DefaultKey,
                                             price |-> auction.bounty]
                               /\ o.free = L2.free
                               /\ o.reserved = L2.reserved
                          ELSE LET price == Bids[<<auction_key, new_top>>][2]
                               IN  /\ o.Bids[<<auction_key, DefaultKey>>] = <<new_top, price>>
                                   /\ {x[2] : x \in {y \in DOMAIN o.Bids : y[1] = auction_key}}
                                        = ({x[2] : x \in {y \in DOMAIN Bids :
                                                            y[1] = auction_key}} \ gone)
                                   /\ \A x \in DOMAIN o.Bids :
                                        (x[1] = auction_key /\ x[2] # DefaultKey)
                                            => o.Bids[x] = Bids[x]
                                   /\ o.event = [name |-> "Retracted",
                                                 auction_key |-> auction_key,
                                                 bid_key |-> new_top, price |-> price]
                                   /\ o.reserved
                                        = [L2.reserved EXCEPT ![new_top[1]]
                                                                = @ + auction.deposit]
                                   /\ o.free
                                        = [L2.free EXCEPT ![new_top[1]]
                                                            = @ - auction.deposit]

(* A retract has passed over an entry whose bidder could not reserve the   *)
(* deposit and has installed the entry below it: of a stack of three, the  *)
(* first entry is the top.                                                 *)
C21_Witness ==
    /\ last_event.name = "Retracted"
    /\ last_event.auction_key = StackKey
    /\ last_event.bid_key # DefaultKey
    /\ last_event.bid_key[2] = 1
    /\ {x \in DOMAIN Bids : x[1] = StackKey}
            = {<<StackKey, DefaultKey>>, <<StackKey, last_event.bid_key>>}

(* C22. In every reachable state, the block height never going back, an    *)
(* auction in dispute has a top bid, and that top bid is assigned at the   *)
(* current block: arbitrate finds a bidder and a price to settle.          *)
C22_DisputedHasAssignedTop ==
    \A auction_key \in DOMAIN Auctions :
        Auctions[auction_key].in_dispute
            => /\ has_top_bid(State, auction_key)
               /\ is_assigned(Auctions[auction_key], top_bid(State, auction_key)[2], now)

(* An auction whose top bid had a price above 0, and so was not assigned   *)
(* from the start, is in dispute, at a block after the one of its          *)
(* creation.                                                               *)
C22_Witness ==
    \E auction_key \in DOMAIN Auctions :
        /\ Auctions[auction_key].in_dispute
        /\ Auctions[auction_key].initial_block < now
        /\ has_top_bid(State, auction_key)
        /\ top_bid(State, auction_key)[2] > 0

(* C23. Record frame: while an auction is live its arbitrator, deposit,    *)
(* initial block and data never change; its bounty and terminal block      *)
(* change only by a successful extend, which takes the owner as signer, a  *)
(* top bid (if any) that is not assigned and a bounty above the current    *)
(* one, and reserves exactly the difference from the owner; in_dispute     *)
(* changes only from false to true, by dispute; bid and retract never      *)
(* modify the record.                                                      *)
C23_ExtendFrame(auction_key) ==
    \A owner \in Accounts, bounty \in Bounties, terminal_block \in ExtendBlocks :
        LET auction == Auctions[auction_key]
            o == extend(State, owner, auction_key, bounty, terminal_block)
        IN  IF o.result = "Ok"
            THEN /\ owner = auction_key[1]
                 /\ has_top_bid(State, auction_key)
                        => ~is_assigned(auction, top_bid(State, auction_key)[2], now)
                 /\ bounty > auction.bounty
                 /\ o.Auctions = [Auctions EXCEPT ![auction_key] =
                                    [auction EXCEPT !.bounty = bounty,
                                                    !.terminal_block = terminal_block]]
                 /\ o.reserved = [reserved EXCEPT ![owner] = @ + (bounty - auction.bounty)]
                 /\ o.free = [free EXCEPT ![owner] = @ - (bounty - auction.bounty)]
            ELSE o.Auctions = Auctions

C23_BidRetractFrame(auction_key) ==
    /\ \A bidder \in Accounts, price \in Prices :
            bid(State, bidder, auction_key, price).Auctions = Auctions
    /\ \A bidder \in Accounts :
            retract(State, bidder, auction_key).Auctions = Auctions

C23_Step(auction_key) ==
    auction_key \in DOMAIN Auctions'
        => LET before == Auctions[auction_key]
               after == Auctions'[auction_key]
           IN  /\ after.arbitrator = before.arbitrator
               /\ after.deposit = before.deposit
               /\ after.initial_block = before.initial_block
               /\ after.data = before.data
               /\ (after.bounty # before.bounty
                        \/ after.terminal_block # before.terminal_block)
                    => last_event' = [name |-> "Extended", auction_key |-> auction_key,
                                      bounty |-> after.bounty,
                                      terminal_block |-> after.terminal_block]
               /\ after.in_dispute # before.in_dispute
                    => /\ after.in_dispute
                       /\ last_event' = [name |-> "Disputed", auction_key |-> auction_key]

C23_RecordFrame ==
    /\ [](\A auction_key \in DOMAIN Auctions :
            C23_ExtendFrame(auction_key) /\ C23_BidRetractFrame(auction_key))
    /\ [][\A auction_key \in DOMAIN Auctions : C23_Step(auction_key)]_vars

(* The keys stored under an auction's key in the bids, and the walk from   *)
(* the entry k along the links to the previous bids, in at most fuel       *)
(* steps: the keys visited, followed by the sentinel key if the walk meets *)
(* a missing entry or runs out of fuel before the sentinel.                *)
StoredKeys(bids, auction_key) == {x[2] : x \in {y \in DOMAIN bids : y[1] = auction_key}}

RECURSIVE Walk(_, _, _, _)
Walk(bids, auction_key, k, fuel) ==
    IF k = DefaultKey THEN <<>>
    ELSE IF fuel = 0 \/ <<auction_key, k>> \notin DOMAIN bids THEN <<DefaultKey>>
    ELSE <<k>> \o Walk(bids, auction_key, bids[<<auction_key, k>>][1], fuel - 1)

WellFormed(bids, auction_key) ==
    LET stored == StoredKeys(bids, auction_key)
    IN  stored # {}
            => /\ DefaultKey \in stored
               /\ LET top == bids[<<auction_key, DefaultKey>>]
                      walk == Walk(bids, auction_key, top[1], Cardinality(stored))
                  IN  /\ top[1] # DefaultKey
                      /\ <<auction_key, top[1]>> \in DOMAIN bids
                      /\ bids[<<auction_key, top[1]>>][2] = top[2]
                      /\ Len(walk) = Cardinality(stored) - 1
                      /\ {walk[i] : i \in 1 .. Len(walk)} = stored \ {DefaultKey}

(* C24. Bid-stack well-formedness: in every reachable state, for each live *)
(* auction either nothing is stored under its key, or the sentinel head    *)
(* exists, the price in the head is the price in the top entry, and the    *)
(* links from the top reach the sentinel after visiting every stored entry *)
(* exactly once; hence the key bid chooses, (bidder, top sequence + 1), is *)
(* not in use, and retract of a top bid that is not assigned never misses  *)
(* an entry.                                                               *)
C24_StackWellFormed ==
    \A auction_key \in DOMAIN Auctions :
        /\ WellFormed(Bids, auction_key)
        /\ has_top_bid(State, auction_key)
            => LET auction == Auctions[auction_key]
                   top_key == top_bid(State, auction_key)[1]
               IN  /\ \A bidder \in Accounts :
                        <<auction_key, next_bid_key(bidder, top_key)>> \notin DOMAIN Bids
                   /\ ~is_assigned(auction, top_bid(State, auction_key)[2], now)
                        => retract(State, top_key[1], auction_key).result # "Panic"

(* The zero account is the top bidder of a stack of two entries. *)
C24_Witness ==
    \E auction_key \in DOMAIN Auctions :
        /\ has_top_bid(State, auction_key)
        /\ top_bid(State, auction_key)[1][1] = 0
        /\ top_bid(State, auction_key)[1][2] = 2
        /\ Cardinality(StoredKeys(Bids, auction_key)) = 3

(* The division of get_base_price is defined for a record at a block: the  *)
(* block is not before the initial block, and when it is before the        *)
(* terminal block the terminal block is after the initial block.           *)
BasePriceDefined(auction, block) ==
    /\ auction.initial_block <= block
    /\ block < auction.terminal_block
            => auction.terminal_block - auction.initial_block > 0

(* C25. The base price is well defined in every reachable state, the block *)
(* height never going back: for every live record the current block is     *)
(* not before the initial block, and when it is before the terminal block  *)
(* the divisor terminal_block - initial_block is positive; this holds of   *)
(* the record every extend leaves, whatever terminal block it is given.    *)
C25_BasePriceDefined ==
    \A auction_key \in DOMAIN Auctions :
        /\ BasePriceDefined(Auctions[auction_key], now)
        /\ \A owner \in Accounts, bounty \in Bounties, terminal_block \in ExtendBlocks :
                LET o == extend(State, owner, auction_key, bounty, terminal_block)
                IN  /\ BasePriceDefined(o.Auctions[auction_key], now)
                    /\ BasePriceDefined(o.Auctions[auction_key], now + 1)

(* An extend has moved the terminal block of a live auction before its     *)
(* initial block.                                                          *)
C25_Witness ==
    /\ last_event.name = "Extended"
    /\ last_event.auction_key \in DOMAIN Auctions
    /\ Auctions[last_event.auction_key].terminal_block
            < Auctions[last_event.auction_key].initial_block

(* C26. The owner can always terminate a live auction: in every reachable  *)
(* state exactly one of cancel and confirm succeeds when the owner calls   *)
(* it, cancel exactly when there is no top bid or the top bid is not       *)
(* assigned, confirm exactly when the top bid is assigned.                 *)
C26_OwnerCanTerminate ==
    \A auction_key \in DOMAIN Auctions :
        LET auction == Auctions[auction_key]
            owner == auction_key[1]
            assigned == /\ has_top_bid(State, auction_key)
                        /\ is_assigned(auction, top_bid(State, auction_key)[2], now)
        IN  /\ cancel(State, owner, auction_key).result = "Ok" <=> ~assigned
            /\ confirm(State, owner, auction_key).result = "Ok" <=> assigned

(* The transfers of the settlement calls on the auction at auction_key, as *)
(* each call issues them on the ledger L: the source's free balance right  *)
(* after the preceding unreserve covers the amount.                        *)
C27_RetractTransfer(L, auction_key) ==
    LET auction == Auctions[auction_key]
        bidder == top_bid(State, auction_key)[1][1]
    IN  transfer_ok(unreserve(L, bidder, auction.deposit),
                    bidder, auction_key[1], auction.deposit)

C27_ConfirmTransfer(L, auction_key) ==
    LET auction == Auctions[auction_key]
        bidder == top_bid(State, auction_key)[1][1]
        price == top_bid(State, auction_key)[2]
    IN  transfer_ok(unreserve(unreserve(L, bidder, auction.deposit),
                              auction_key[1], auction.deposit + auction.bounty),
                    auction_key[1], bidder, price)

C27_CancelTransfer(L, auction_key) ==
    LET auction == Auctions[auction_key]
        bidder == top_bid(State, auction_key)[1][1]
    IN  transfer_ok(unreserve(unreserve(L, bidder, auction.deposit),
                              auction_key[1], auction.deposit + auction.bounty),
                    auction_key[1], bidder, auction.deposit)

C27_ArbitrateTransfers(L, auction_key, fulfilled) ==
    LET auction == Auctions[auction_key]
        owner == auction_key[1]
        bidder == top_bid(State, auction_key)[1][1]
        price == top_bid(State, auction_key)[2]
        L2 == unreserve(unreserve(L, owner, auction.deposit + auction.bounty),
                        bidder, auction.deposit)
    IN  IF fulfilled
        THEN /\ transfer_ok(L2, owner, bidder, price)
             /\ transfer_ok(transfer(L2, owner, bidder, price),
                            owner, auction.arbitrator, auction.deposit)
        ELSE transfer_ok(L2, bidder, auction.arbitrator, auction.deposit)

(* C27. Settlement transfers never fail: in every reachable state each     *)
(* transfer issued by retract, confirm, cancel and arbitrate finds the     *)
(* source's free balance at or above the amount right after the preceding  *)
(* unreserve, so that no unwrap() on a transfer result panics.             *)
C27_TransfersNeverFail ==
    \A auction_key \in DOMAIN Auctions :
        has_top_bid(State, auction_key) =>
            LET auction == Auctions[auction_key]
                assigned == is_assigned(auction, top_bid(State, auction_key)[2], now)
            IN  /\ (assigned /\ ~auction.in_dispute)
                        => C27_RetractTransfer(Ledger(State), auction_key)
                /\ assigned => C27_ConfirmTransfer(Ledger(State), auction_key)
                /\ ~assigned => C27_CancelTransfer(Ledger(State), auction_key)
                /\ auction.in_dispute
                        => \A fulfilled \in BOOLEAN :
                              C27_ArbitrateTransfers(Ledger(State), auction_key, fulfilled)

====
